---- MODULE Spec2Model ----
(***************************************************************************)
(* Feedback hub: the feedback-ingestion edge function                      *)
(* (supabase/functions/feedbacks/index.ts), the database schema with its   *)
(* key-resolution function (the SQL migration) and the key management of   *)
(* the Settings page (fetchApiKey, regenerateKey).                         *)
(*                                                                         *)
(* Strings are modelled by what the code does with them:                   *)
(*  - an Authorization header is a sequence of string pieces, so that      *)
(*    startsWith('Bearer ') and replace('Bearer ', '') are computed;       *)
(*  - a message is the triple (leading whitespace, core, trailing          *)
(*    whitespace) of lengths, so that .length and .trim() are computed.    *)
(* Every tenant starts with the one active key it holds after sign-up.      *)
(* The handler suspends at its two store calls (the rpc and the insert),   *)
(* regenerateKey at its two store calls (the update and the insert): each  *)
(* is modelled as two steps that other requests and sessions interleave.   *)
(***************************************************************************)
EXTENDS Integers, Sequences, FiniteSets, TLC

VARIABLES
    api_keys,      \* table public.api_keys, in insertion order
    feedbacks,     \* table public.feedbacks, in insertion order
    apiKey,        \* Settings: useState<ApiKey | null>, per browser session (the row's id, 0 = null)
    loading,       \* Settings: useState(true), per session: fetchApiKey has not answered yet
    regenerating,  \* Settings: per session, regenerateKey is between its two store calls
    pending,       \* edge function: requests suspended between the rpc and the insert
    started,       \* history: what each session's current or latest regenerateKey call began with
    last,          \* history: the outcome of the step just taken (HTTP response or toast)
    accepted       \* history: number of 201 responses sent so far

vars == <<api_keys, feedbacks, apiKey, loading, regenerating, pending, started, last, accepted>>

----------------------------------------------------------------------------
(* Bounds of the model *)

MaxKeys == 3               \* Spec: rows of api_keys
MaxFeedbacks == 1          \* Spec: rows of feedbacks
MaxPad == 1                \* whitespace characters on each side of a message
MaxRepeatFeedbacks == 3    \* SpecRepeat: rows of feedbacks
MaxRotationKeys == 4       \* SpecRotation: rows of api_keys
MaxRotationFeedbacks == 2  \* SpecRotation: rows of feedbacks
MaxFaultKeys == 4          \* SpecFaults: rows of api_keys
MaxFaultFeedbacks == 1     \* SpecFaults: rows of feedbacks

(* Program constant *)
MaxMessageLength == 5000

Tenants == {"T1", "T2"}
Sessions == {"s1", "s2", "s3"}
Slots == {"r1"}

\* useAuth().user.id of each signed-in browser session: T1 is open in two tabs
user == [s \in Sessions |-> IF s = "s3" THEN "T2" ELSE "T1"]

Undefined == "undefined"
Null == "null"

----------------------------------------------------------------------------
(* Request inputs *)

Methods == {"POST", "OPTIONS", "GET"}

\* key TEXT DEFAULT encode(gen_random_bytes(32), 'hex'): the id-th generated secret
gen_random_key(id) == "key" \o ToString(id)

Tokens == {gen_random_key(i) : i \in 1..MaxKeys} \cup {"unknown"}

Bearer(token) == <<"Bearer ", token>>

\* An absent header and the empty string are the same to the handler (both falsy).
Headers ==
    {<<>>, <<"Bearer ">>, <<"Basic ", "key1">>, <<"bearer ", "key1">>, <<"key1">>,
     <<"Bearer ", "Bearer ", "key1">>}
    \cup {Bearer(t) : t \in Tokens}

NoMessage == [defined |-> FALSE, lead |-> 0, core |-> 0, trail |-> 0]

CoreLengths == {0, 1, MaxMessageLength, MaxMessageLength + 1}

\* core = 0 is a string of whitespace only (written with trail = 0)
Messages ==
    {NoMessage} \cup
    {[defined |-> TRUE, lead |-> l, core |-> c, trail |-> t] :
        l \in 0..MaxPad, c \in CoreLengths, t \in 0..MaxPad}

TypeInputs == {Undefined, "", "bug", "praise", "Bug", "rant"}

Unparsable == [parsed |-> FALSE, userId |-> Undefined, type |-> Undefined, message |-> NoMessage]

Body(userId, type, message) == [parsed |-> TRUE, userId |-> userId, type |-> type, message |-> message]

\* a one-character message
Short == [defined |-> TRUE, lead |-> 0, core |-> 1, trail |-> 0]

\* Spec: every type with a short message, every message with a valid type, and
\* payloads that break several rules at once
Bodies ==
    {Unparsable}
    \cup {Body(Undefined, t, Short) : t \in TypeInputs}
    \cup {Body(Undefined, "bug", m) : m \in Messages}
    \cup {Body(Undefined, t, m) :
            t \in {Undefined, "rant"},
            m \in {NoMessage, [defined |-> TRUE, lead |-> 0, core |-> MaxMessageLength + 1, trail |-> 0]}}

\* SpecRepeat: requests of every outcome, for the keys of both tenants
RepeatHeaders == {<<>>, <<"Basic ", "key1">>, Bearer("unknown"), Bearer("key1"), Bearer("key2")}

RepeatBodies ==
    {Unparsable, Body(Undefined, "bug", Short), Body(Undefined, "praise", Short),
     Body(Undefined, "bug", NoMessage), Body(Undefined, "Bug", Short),
     Body(Undefined, "bug", [defined |-> TRUE, lead |-> 0, core |-> MaxMessageLength + 1, trail |-> 0])}
    \cup {Body(Undefined, t, m) :
            t \in {Undefined, "rant"},
            m \in {NoMessage, [defined |-> TRUE, lead |-> 0, core |-> MaxMessageLength + 1, trail |-> 0]}}

\* SpecRotation: valid payloads, with and without userId (here another tenant's id)
RotationHeaders == {Bearer(gen_random_key(i)) : i \in 1..MaxRotationKeys}

\* SpecFaults
FaultHeaders == {Bearer(gen_random_key(i)) : i \in 1..MaxFaultKeys}

RotationBodies == {Body(Undefined, "bug", Short), Body("T2", "bug", Short)}

----------------------------------------------------------------------------
(* String operations *)

\* authHeader.startsWith('Bearer ')
startsWith(authHeader) == Len(authHeader) >= 1 /\ authHeader[1] = "Bearer "

\* authHeader.replace('Bearer ', ''): removes the first occurrence
RECURSIVE replace(_)
replace(authHeader) ==
    IF authHeader = <<>> THEN <<>>
    ELSE IF Head(authHeader) = "Bearer " THEN Tail(authHeader)
    ELSE <<Head(authHeader)>> \o replace(Tail(authHeader))

\* body.message.length
length(message) == message.lead + message.core + message.trail

\* body.message.trim()
trim(message) == [defined |-> message.defined, lead |-> 0, core |-> message.core, trail |-> 0]

----------------------------------------------------------------------------
(* The store *)

\* now(): a logical clock that advances with every inserted feedback
now == Len(feedbacks)

\* Mutant: the lookup without its is_active condition
get_user_id_from_api_key_any(api_key) ==
    SelectSeq(api_keys, LAMBDA ak : <<ak.key>> = api_key)

\* public.get_user_id_from_api_key(api_key TEXT): the rows of active keys whose secret is api_key
get_user_id_from_api_key(api_key) ==
    SelectSeq(api_keys, LAMBDA ak : <<ak.key>> = api_key /\ ak.is_active = TRUE)

NoFeedback == [id |-> 0, type |-> "", message |-> NoMessage, created_at |-> 0]

NoRequest == [busy |-> FALSE, apiKey |-> <<>>, user_id |-> "", api_key_id |-> 0]

NoCall == [before |-> {}, updated |-> FALSE, overlap |-> FALSE]

\* ids of the keys of tenant t whose active flag is set
ActiveKeys(t) ==
    {api_keys[i].id : i \in {j \in DOMAIN api_keys : api_keys[j].user_id = t /\ api_keys[j].is_active}}

Init ==
    /\ api_keys = << [id |-> 1, user_id |-> "T1", key |-> gen_random_key(1), is_active |-> TRUE],
                     [id |-> 2, user_id |-> "T2", key |-> gen_random_key(2), is_active |-> TRUE] >>
    /\ feedbacks = <<>>
    /\ apiKey = [s \in Sessions |-> 0]
    /\ loading = [s \in Sessions |-> TRUE]
    /\ regenerating = [s \in Sessions |-> FALSE]
    /\ pending = [r \in Slots |-> NoRequest]
    /\ started = [s \in Sessions |-> NoCall]
    /\ last = [op |-> "init"]
    /\ accepted = 0

----------------------------------------------------------------------------
(* The edge function: Deno.serve handler *)

\* new Response(JSON.stringify(...), { status, headers: corsHeaders })
\* lookup: the request called the key-resolution rpc before this response
Response(status, error, feedback, lookup) ==
    [op |-> "response", status |-> status, error |-> error, feedback |-> feedback,
     lookup |-> lookup, apiKey |-> <<>>, cors |-> "*"]

\* Mutant: GET is let through like POST
MethodNotAllowed_get(method) == method \notin {"POST", "GET"}

\* req.method !== 'POST'
MethodNotAllowed(method) == method # "POST"

\* Mutant: only the presence of the header is checked
BadAuthorization_presence(authHeader) == authHeader = <<>>

\* !authHeader || !authHeader.startsWith('Bearer ')
BadAuthorization(authHeader) == authHeader = <<>> \/ ~startsWith(authHeader)

\* keyError || !keyData || keyData.length === 0
KeyRejected(rpcOk, keyData) == ~rpcOk \/ Len(keyData) = 0

\* !body.type || !body.message
MissingFields(body) ==
    \/ body.type = Undefined \/ body.type = ""
    \/ ~body.message.defined \/ length(body.message) = 0

validTypes == {"bug", "suggestion", "praise", "other"}

\* Mutant: the type is compared without regard to case
InvalidType_nocase(body) == body.type \notin validTypes \cup {"Bug"}

\* !validTypes.includes(body.type)
InvalidType(body) == body.type \notin validTypes

\* body.message.length > 5000
MessageTooLong(body) == length(body.message) > MaxMessageLength

\* Mutant: the length rule is checked first
ValidationError_lengthFirst(body) ==
    IF body.message.defined /\ MessageTooLong(body)
    THEN "Message too long. Maximum 5000 characters."
    ELSE IF MissingFields(body)
    THEN "Missing required fields: type and message are required"
    ELSE IF InvalidType(body)
    THEN "Invalid type. Must be one of: bug, suggestion, praise, other"
    ELSE ""

\* Lines 68-91: the error of the first failing validation rule, "" when none fails
ValidationError(body) ==
    IF MissingFields(body)
    THEN "Missing required fields: type and message are required"
    ELSE IF InvalidType(body)
    THEN "Invalid type. Must be one of: bug, suggestion, praise, other"
    ELSE IF MessageTooLong(body)
    THEN "Message too long. Maximum 5000 characters."
    ELSE ""

\* Mutant: the row is attributed to the key of the tenant that is active at insert time
NewFeedback_currentKey(user_id, api_key_id, body) ==
    [id |-> Len(feedbacks) + 1,
     api_key_id |-> IF ActiveKeys(user_id) = {} THEN 0
                    ELSE CHOOSE k \in ActiveKeys(user_id) : \A j \in ActiveKeys(user_id) : j <= k,
     user_id |-> user_id,
     external_user_id |-> IF body.userId = Undefined \/ body.userId = "" THEN Null ELSE body.userId,
     type |-> body.type,
     message |-> trim(body.message),
     created_at |-> now]

\* Mutant: the message is stored as received, untrimmed
NewFeedback_untrimmed(user_id, api_key_id, body) ==
    [id |-> Len(feedbacks) + 1,
     api_key_id |-> api_key_id,
     user_id |-> user_id,
     external_user_id |-> IF body.userId = Undefined \/ body.userId = "" THEN Null ELSE body.userId,
     type |-> body.type,
     message |-> body.message,
     created_at |-> now]

\* Mutant: the tenant is taken from the payload's userId when it has one
NewFeedback_bodyUser(user_id, api_key_id, body) ==
    [id |-> Len(feedbacks) + 1,
     api_key_id |-> api_key_id,
     user_id |-> IF body.userId = Undefined \/ body.userId = "" THEN user_id ELSE body.userId,
     external_user_id |-> IF body.userId = Undefined \/ body.userId = "" THEN Null ELSE body.userId,
     type |-> body.type,
     message |-> trim(body.message),
     created_at |-> now]

\* the row of .insert({ user_id, api_key_id, external_user_id, type, message, metadata })
\* with the column defaults id and created_at (metadata is not modelled)
NewFeedback(user_id, api_key_id, body) ==
    [id |-> Len(feedbacks) + 1,
     api_key_id |-> api_key_id,
     user_id |-> user_id,
     external_user_id |-> IF body.userId = Undefined \/ body.userId = "" THEN Null ELSE body.userId,
     type |-> body.type,
     message |-> trim(body.message),
     created_at |-> now]

\* Mutant: a row equal to a stored one but for id and created_at is not stored again
InsertFeedback_dedup(row) ==
    IF \E i \in DOMAIN feedbacks :
            [feedbacks[i] EXCEPT !.id = row.id, !.created_at = row.created_at] = row
    THEN feedbacks
    ELSE Append(feedbacks, row)

\* .from('feedbacks').insert(row): the table has no uniqueness rule besides the generated id
InsertFeedback(row) == Append(feedbacks, row)

\* .select('id, type, message, created_at').single()
Echo(row) == [id |-> row.id, type |-> row.type, message |-> row.message, created_at |-> row.created_at]

\* number of requests suspended between the rpc and the insert
InFlight == Cardinality({r \in Slots : pending[r].busy})

\* Lines 15-62: method check, Authorization header, key resolution (first store call).
\* rpcOk = FALSE is a failed rpc (keyError).
SubmitResolve(r, method, authHeader, rpcOk) ==
    /\ ~pending[r].busy
    /\ UNCHANGED <<api_keys, feedbacks, apiKey, loading, regenerating, started, accepted>>
    /\ IF method = "OPTIONS" THEN
            /\ last' = Response(200, "", NoFeedback, FALSE)
            /\ UNCHANGED pending
       ELSE IF MethodNotAllowed(method) THEN
            /\ last' = Response(405, "Method not allowed", NoFeedback, FALSE)
            /\ UNCHANGED pending
       ELSE IF BadAuthorization(authHeader) THEN
            /\ last' = Response(401, "Missing or invalid API key", NoFeedback, FALSE)
            /\ UNCHANGED pending
       ELSE LET token == replace(authHeader)
                keyData == IF rpcOk THEN get_user_id_from_api_key(token) ELSE <<>>
            IN  IF KeyRejected(rpcOk, keyData) THEN
                    /\ last' = [Response(401, "Invalid API key", NoFeedback, TRUE)
                                    EXCEPT !.apiKey = token]
                    /\ UNCHANGED pending
                ELSE
                    /\ pending' = [pending EXCEPT ![r] =
                                     [busy |-> TRUE, apiKey |-> token,
                                      user_id |-> keyData[1].user_id,
                                      api_key_id |-> keyData[1].id]]
                    /\ last' = [op |-> "resolved"]

\* Lines 64-136: body parsing, validation, insert (second store call), response.
\* insertOk = FALSE is a failed insert (insertError).
SubmitInsert(r, body, insertOk) ==
    /\ pending[r].busy
    /\ pending' = [pending EXCEPT ![r] = NoRequest]
    /\ UNCHANGED <<api_keys, apiKey, loading, regenerating, started>>
    /\ IF ~body.parsed THEN
            \* req.json() throws: caught at line 130
            /\ last' = Response(500, "Internal server error", NoFeedback, TRUE)
            /\ UNCHANGED <<feedbacks, accepted>>
       ELSE IF ValidationError(body) # "" THEN
            /\ last' = Response(400, ValidationError(body), NoFeedback, TRUE)
            /\ UNCHANGED <<feedbacks, accepted>>
       ELSE IF ~insertOk THEN
            /\ last' = Response(500, "Failed to save feedback", NoFeedback, TRUE)
            /\ UNCHANGED <<feedbacks, accepted>>
       ELSE LET feedback == NewFeedback(pending[r].user_id, pending[r].api_key_id, body)
            IN  /\ feedbacks' = InsertFeedback(feedback)
                /\ last' = Response(201, "", Echo(feedback), TRUE)
                /\ accepted' = accepted + 1

----------------------------------------------------------------------------
(* The Settings page *)

\* .from('api_keys').select('*').eq('user_id', user.id).eq('is_active', true) under the
\* row-level policy "Users can view own API keys" (auth.uid() = user_id)
SelectActiveKeys(s) ==
    SelectSeq(api_keys, LAMBDA ak : ak.user_id = user[s] /\ ak.is_active = TRUE)

\* .single(): the row when exactly one row matches, no data otherwise
single(rows) == IF Len(rows) = 1 THEN rows[1].id ELSE 0

\* fetchApiKey, run once when the page mounts. ok = FALSE is a failed query.
fetchApiKey(s, ok) ==
    /\ loading[s]
    /\ LET data == IF ok THEN single(SelectActiveKeys(s)) ELSE 0
       IN  apiKey' = [apiKey EXCEPT ![s] = IF data # 0 THEN data ELSE @]
    /\ loading' = [loading EXCEPT ![s] = FALSE]
    /\ last' = [op |-> "fetchApiKey"]
    /\ UNCHANGED <<api_keys, feedbacks, regenerating, pending, started, accepted>>

\* Mutant: the update flips the flag instead of clearing it
DeactivateKey_toggle(s, id) ==
    [i \in DOMAIN api_keys |->
        IF api_keys[i].id = id /\ api_keys[i].user_id = user[s]
        THEN [api_keys[i] EXCEPT !.is_active = ~@]
        ELSE api_keys[i]]

\* .update({ is_active: false }).eq('id', id) under the row-level policy
\* "Users can update own API keys" (auth.uid() = user_id)
DeactivateKey(s, id) ==
    [i \in DOMAIN api_keys |->
        IF api_keys[i].id = id /\ api_keys[i].user_id = user[s]
        THEN [api_keys[i] EXCEPT !.is_active = FALSE]
        ELSE api_keys[i]]

\* .insert({ user_id: user.id, name: 'Default API Key' }) with the column defaults
NewApiKey(s) ==
    [id |-> Len(api_keys) + 1,
     user_id |-> user[s],
     key |-> gen_random_key(Len(api_keys) + 1),
     is_active |-> TRUE]

\* sessions of the same tenant that are inside regenerateKey
Regenerating(t) == {s \in Sessions : user[s] = t /\ regenerating[s]}

\* regenerateKey, lines 76-85: guard, setRegenerating(true), deactivate the loaded key.
\* ok = FALSE is a failed update (its result is not looked at).
regenerateKeyDeactivate(s, ok) ==
    /\ apiKey[s] # 0
    /\ ~regenerating[s]
    /\ regenerating' = [regenerating EXCEPT ![s] = TRUE]
    /\ api_keys' = IF ok THEN DeactivateKey(s, apiKey[s]) ELSE api_keys
    /\ started' = [x \in Sessions |->
                     IF x = s
                     THEN [before |-> ActiveKeys(user[s]), updated |-> ok,
                           overlap |-> Regenerating(user[s]) # {}]
                     ELSE IF x \in Regenerating(user[s])
                     THEN [started[x] EXCEPT !.overlap = TRUE]
                     ELSE started[x]]
    /\ last' = [op |-> "deactivate"]
    /\ UNCHANGED <<feedbacks, apiKey, loading, pending, accepted>>

\* regenerateKey, lines 87-108: insert the new key, toast, setRegenerating(false).
\* ok = FALSE is a failed insert.
regenerateKeyInsert(s, ok) ==
    /\ regenerating[s]
    /\ regenerating' = [regenerating EXCEPT ![s] = FALSE]
    /\ IF ok THEN
            /\ api_keys' = Append(api_keys, NewApiKey(s))
            /\ apiKey' = [apiKey EXCEPT ![s] = NewApiKey(s).id]
            /\ last' = [op |-> "regenerateKey", session |-> s, error |-> FALSE,
                        toast |-> "Nova API Key gerada"]
       ELSE
            /\ last' = [op |-> "regenerateKey", session |-> s, error |-> TRUE,
                        toast |-> "Erro"]
            /\ UNCHANGED <<api_keys, apiKey>>
    /\ UNCHANGED <<feedbacks, loading, pending, started, accepted>>

----------------------------------------------------------------------------
(* The Dashboard page *)

\* .order('created_at', { ascending: false }): created_at grows with the position
Descending(rows) == [i \in 1..Len(rows) |-> rows[Len(rows) + 1 - i]]

\* Mutant: the select without the row-level policy
fetchData_noPolicy(s) == Descending(feedbacks)

\* fetchData: .from('feedbacks').select('*').order('created_at', { ascending: false })
\* under the row-level policy "Users can view own feedbacks" (auth.uid() = user_id)
fetchData(s) == Descending(SelectSeq(feedbacks, LAMBDA f : f.user_id = user[s]))

----------------------------------------------------------------------------

\* room left in the bounded tables for one more row
FeedbackRoom(max) == Len(feedbacks) + InFlight < max
KeyRoom(max) == Len(api_keys) + Cardinality({s \in Sessions : regenerating[s]}) < max

\* Ingestion: every request shape, while one session of T1 manages its key.
Next ==
    \/ \E r \in Slots, method \in Methods, authHeader \in Headers, rpcOk \in BOOLEAN :
            FeedbackRoom(MaxFeedbacks) /\ SubmitResolve(r, method, authHeader, rpcOk)
    \/ \E r \in Slots, body \in Bodies, insertOk \in BOOLEAN : SubmitInsert(r, body, insertOk)
    \/ \E ok \in BOOLEAN : fetchApiKey("s1", ok)
    \/ \E ok \in BOOLEAN : KeyRoom(MaxKeys) /\ regenerateKeyDeactivate("s1", ok)
    \/ \E ok \in BOOLEAN : regenerateKeyInsert("s1", ok)

Spec == Init /\ [][Next]_vars

\* Submissions only, repeated: no key is rotated.
NextRepeat ==
    \/ \E r \in Slots, method \in Methods, authHeader \in RepeatHeaders, rpcOk \in BOOLEAN :
            FeedbackRoom(MaxRepeatFeedbacks) /\ SubmitResolve(r, method, authHeader, rpcOk)
    \/ \E r \in Slots, body \in RepeatBodies, insertOk \in BOOLEAN : SubmitInsert(r, body, insertOk)

SpecRepeat == Init /\ [][NextRepeat]_vars

\* Key rotation: all sessions of both tenants, while valid payloads are submitted.
\* No store call fails.
NextRotation ==
    \/ \E r \in Slots, authHeader \in RotationHeaders :
            FeedbackRoom(MaxRotationFeedbacks) /\ SubmitResolve(r, "POST", authHeader, TRUE)
    \/ \E r \in Slots, body \in RotationBodies : SubmitInsert(r, body, TRUE)
    \/ \E s \in Sessions : fetchApiKey(s, TRUE)
    \/ \E s \in Sessions : KeyRoom(MaxRotationKeys) /\ regenerateKeyDeactivate(s, TRUE)
    \/ \E s \in Sessions : regenerateKeyInsert(s, TRUE)

SpecRotation == Init /\ [][NextRotation]_vars

\* Key rotation as above, where any store call of the Settings page may fail.
NextFaults ==
    \/ \E r \in Slots, authHeader \in FaultHeaders :
            FeedbackRoom(MaxFaultFeedbacks) /\ SubmitResolve(r, "POST", authHeader, TRUE)
    \/ \E r \in Slots : SubmitInsert(r, Body(Undefined, "bug", Short), TRUE)
    \/ \E s \in Sessions, ok \in BOOLEAN : fetchApiKey(s, ok)
    \/ \E s \in Sessions, ok \in BOOLEAN : KeyRoom(MaxFaultKeys) /\ regenerateKeyDeactivate(s, ok)
    \/ \E s \in Sessions, ok \in BOOLEAN : regenerateKeyInsert(s, ok)

SpecFaults == Init /\ [][NextFaults]_vars

----------------------------------------------------------------------------
(* Properties *)

IsResponse(status) == last.op = "response" /\ last.status = status

\* what the specification calls a valid payload: an enumerated type and a message that is
\* non-empty once trimmed; the message as sent has at most 5000 characters
ValidPayload(body) ==
    /\ body.parsed
    /\ body.type \in {"bug", "suggestion", "praise", "other"}
    /\ body.message.defined
    /\ body.message.core > 0
    /\ body.message.lead + body.message.core + body.message.trail <= 5000

Trimmed(message) == [defined |-> TRUE, lead |-> 0, core |-> message.core, trail |-> 0]

\* the token is the secret of a key that is active now
ActiveToken(token) ==
    \E i \in DOMAIN api_keys : api_keys[i].is_active /\ <<api_keys[i].key>> = token

\* C1 (resolution): a POST carrying 'Bearer <token>', <token> the secret of an active key K,
\* proceeds with K's owner and K's id.
C1_Resolved ==
    \A r \in Slots, t \in Tokens :
        (ActiveToken(<<t>>) /\ SubmitResolve(r, "POST", Bearer(t), TRUE))
        => \E i \in DOMAIN api_keys :
                /\ api_keys[i].key = t
                /\ pending'[r] = [busy |-> TRUE, apiKey |-> <<t>>,
                                  user_id |-> api_keys[i].user_id, api_key_id |-> api_keys[i].id]

\* C1 (insert): such a request with a valid payload adds exactly one row of K and K's
\* owner, and is answered 201 with that row's id, type, trimmed message and created_at.
C1_Inserted ==
    \A r \in Slots, body \in Bodies :
        (ValidPayload(body) /\ SubmitInsert(r, body, TRUE))
        => /\ Len(feedbacks') = Len(feedbacks) + 1
           /\ SubSeq(feedbacks', 1, Len(feedbacks)) = feedbacks
           /\ LET row == feedbacks'[Len(feedbacks')]
              IN  /\ \E i \in DOMAIN api_keys :
                        /\ <<api_keys[i].key>> = pending[r].apiKey
                        /\ row.api_key_id = api_keys[i].id
                        /\ row.user_id = api_keys[i].user_id
                  /\ row.type = body.type
                  /\ row.message = Trimmed(body.message)
                  /\ last'.op = "response"
                  /\ last'.status = 201
                  /\ last'.feedback = [id |-> row.id, type |-> body.type,
                                       message |-> Trimmed(body.message),
                                       created_at |-> row.created_at]

\* C1: every submit with the bearer token of an active key K of tenant T and a valid
\* payload (no store call failing) creates exactly one Feedback row, of tenant T and key K,
\* and is answered 201 echoing the row's id, type, trimmed message and created_at.
C1_ValidSubmitCreatesOneRow == [][C1_Resolved /\ C1_Inserted]_vars

\* a maximum-length message was just stored for a regenerated key of T1 and echoed
C1_Witness ==
    /\ IsResponse(201)
    /\ Len(feedbacks) >= 1
    /\ LET row == feedbacks[Len(feedbacks)]
       IN  /\ row.api_key_id = 3
           /\ row.user_id = "T1"
           /\ row.message.core = MaxMessageLength
           /\ last.feedback.id = row.id

\* C2: a POST whose bearer token is not the secret of a key that is active when the
\* request is resolved (the token of a deactivated key included) is answered 401, and the
\* request goes no further: it creates no row.
C2_InactiveTokenRejected ==
    [][\A r \in Slots, authHeader \in Headers, rpcOk \in BOOLEAN :
         ( /\ Len(authHeader) >= 1
           /\ authHeader[1] = "Bearer "
           /\ ~ActiveToken(Tail(authHeader))
           /\ SubmitResolve(r, "POST", authHeader, rpcOk) )
         => /\ last'.op = "response"
            /\ last'.status = 401
            /\ feedbacks' = feedbacks
            /\ pending' = pending]_vars

\* the token of a key that regenerateKey deactivated was just answered 401
C2_Witness ==
    /\ IsResponse(401)
    /\ last.lookup
    /\ \E i \in DOMAIN api_keys : ~api_keys[i].is_active /\ <<api_keys[i].key>> = last.apiKey
    /\ \E s \in Sessions : apiKey[s] > 2

\* C3: a POST whose Authorization header is absent or does not start with 'Bearer ' is
\* answered 401 without a key lookup, and the request goes no further (its body is never
\* read, no row is created).
C3_MalformedHeaderRejected ==
    [][\A r \in Slots, authHeader \in Headers, rpcOk \in BOOLEAN :
         ( /\ (authHeader = <<>> \/ authHeader[1] # "Bearer ")
           /\ SubmitResolve(r, "POST", authHeader, rpcOk) )
         => /\ last'.op = "response"
            /\ last'.status = 401
            /\ ~last'.lookup
            /\ feedbacks' = feedbacks
            /\ pending' = pending]_vars

\* a 401 was just sent for a header problem, before any lookup
C3_Witness ==
    /\ IsResponse(401)
    /\ ~last.lookup
    /\ last.error = "Missing or invalid API key"

\* C4: after a completed regenerateKey call of a session (no store call failing, no other
\* call of the tenant running meanwhile) the tenant has exactly one active key, every key
\* that was active before the call is inactive, and its token resolves to nothing.
C4_RegenerationExclusive ==
    (last.op = "regenerateKey" /\ ~last.error /\ ~started[last.session].overlap)
    => LET s == last.session
       IN  /\ Cardinality(ActiveKeys(user[s])) = 1
           /\ \A i \in DOMAIN api_keys :
                api_keys[i].id \in started[s].before
                => /\ ~api_keys[i].is_active
                   /\ get_user_id_from_api_key(<<api_keys[i].key>>) = <<>>

\* C5: once two regenerateKey calls of one tenant that ran concurrently have both
\* finished, the tenant does not have two active keys.
C5_ConcurrentRegenerations ==
    \A s1, s2 \in Sessions :
        ( /\ s1 # s2
          /\ user[s1] = user[s2]
          /\ started[s1].overlap /\ started[s2].overlap
          /\ ~regenerating[s1] /\ ~regenerating[s2] )
        => Cardinality(ActiveKeys(user[s1])) <= 1

\* C6: after a regenerateKey call of which exactly one store step failed, the tenant has
\* at most one active key, and if it has none, a session of the tenant can still
\* regenerate.
C6_FailureBetweenSteps ==
    (last.op = "regenerateKey" /\ started[last.session].updated = last.error)
    => LET t == user[last.session]
       IN  /\ Cardinality(ActiveKeys(t)) <= 1
           /\ ActiveKeys(t) = {} => \E s \in Sessions : user[s] = t /\ apiKey[s] # 0

\* C7: the number of Feedback rows equals the number of 201 responses, and the rows are
\* distinct records (a repeated request is stored again).
C7_OneRowPerAccepted ==
    /\ Len(feedbacks) = accepted
    /\ \A i, j \in DOMAIN feedbacks : i # j => feedbacks[i].id # feedbacks[j].id

\* the same submission was accepted twice and is stored twice
C7_Witness ==
    /\ accepted = 2
    /\ IsResponse(201)
    /\ \E i, j \in DOMAIN feedbacks :
        /\ i # j
        /\ [feedbacks[i] EXCEPT !.id = 0, !.created_at = 0]
            = [feedbacks[j] EXCEPT !.id = 0, !.created_at = 0]

\* C8: every Feedback row references exactly one existing key and a tenant, and the
\* tenant is the owner of the key, whatever userId the payloads carried.
C8_FeedbackOwnership ==
    \A i \in DOMAIN feedbacks :
        /\ feedbacks[i].user_id \in Tenants
        /\ Cardinality({k \in DOMAIN api_keys : api_keys[k].id = feedbacks[i].api_key_id}) = 1
        /\ \A k \in DOMAIN api_keys :
                api_keys[k].id = feedbacks[i].api_key_id
                => api_keys[k].user_id = feedbacks[i].user_id

\* both tenants have regenerated, and a row of T1's new key carries userId "T2"
C8_Witness ==
    /\ \E k \in DOMAIN api_keys : api_keys[k].id > 2 /\ api_keys[k].user_id = "T2"
    /\ \E i \in DOMAIN feedbacks :
        /\ feedbacks[i].external_user_id = "T2"
        /\ feedbacks[i].user_id = "T1"
        /\ feedbacks[i].api_key_id > 2

\* C9: with a resolved key and a valid type, a message longer than 5000 characters once
\* trimmed is answered 400, and one of exactly 5000 characters once trimmed is answered 201.
C9_TrimmedLengthLimit ==
    [][\A r \in Slots, body \in Bodies :
         ( /\ body.parsed
           /\ body.type \in {"bug", "suggestion", "praise", "other"}
           /\ body.message.defined
           /\ SubmitInsert(r, body, TRUE) )
         => /\ body.message.core > 5000 => last'.status = 400
            /\ body.message.core = 5000 => last'.status = 201]_vars

\* C10: with a resolved key and a valid type, a message that is empty once trimmed is
\* answered 400 and stores nothing; no stored row has an empty message.
C10_EmptyMessageRejected ==
    [][ /\ \A r \in Slots, body \in Bodies :
            ( /\ body.parsed
              /\ body.type \in {"bug", "suggestion", "praise", "other"}
              /\ body.message.defined
              /\ body.message.core = 0
              /\ SubmitInsert(r, body, TRUE) )
            => (last'.status = 400 /\ feedbacks' = feedbacks)
        /\ \A i \in DOMAIN feedbacks' : feedbacks'[i].message.core > 0 ]_vars

\* C11: a POST whose key resolved and whose body cannot be parsed is answered 400, and
\* stores nothing.
C11_UnparsableBodyRejected ==
    [][\A r \in Slots, insertOk \in BOOLEAN :
         SubmitInsert(r, Unparsable, insertOk)
         => (last'.status = 400 /\ feedbacks' = feedbacks)]_vars

\* the header is absent or does not start with 'Bearer '
MalformedHeader(authHeader) == authHeader = <<>> \/ authHeader[1] # "Bearer "

\* C12: a POST with a well-formed header naming an unknown or inactive token is answered
\* exactly as the POST with an absent or malformed header answered just before it: 401
\* and the same error body.
C12_RejectionsIndistinguishable ==
    [][\A r \in Slots, authHeader \in Headers :
         ( /\ IsResponse(401)
           /\ ~last.lookup
           /\ ~MalformedHeader(authHeader)
           /\ ~ActiveToken(Tail(authHeader))
           /\ SubmitResolve(r, "POST", authHeader, TRUE) )
         => (last'.status = last.status /\ last'.error = last.error)]_vars

\* C13: a submit with the token of an active key whose key lookup fails in the store, or
\* whose insert fails in the store, is answered 500 and leaves no row.
C13_StoreFailureIsInternal ==
    [][ /\ \A r \in Slots, authHeader \in Headers :
            ( /\ ~MalformedHeader(authHeader)
              /\ ActiveToken(Tail(authHeader))
              /\ SubmitResolve(r, "POST", authHeader, FALSE) )
            => (last'.status = 500 /\ feedbacks' = feedbacks /\ pending' = pending)
        /\ \A r \in Slots, body \in Bodies :
            (ValidPayload(body) /\ SubmitInsert(r, body, FALSE))
            => (last'.status = 500 /\ feedbacks' = feedbacks) ]_vars

\* the payload has no type, has no message, or has a type other than the four
TypeOrMessageInvalid(body) ==
    \/ body.type = Undefined
    \/ ~body.message.defined
    \/ body.type \notin {"bug", "suggestion", "praise", "other"}

\* C14: with a resolved key, a parsed payload that has no type, has no message, or has a
\* type that is not exactly bug, suggestion, praise or other is answered 400 and stores
\* nothing, whether or not the store would have accepted the insert.
C14_InvalidPayloadRejected ==
    [][\A r \in Slots, body \in Bodies, insertOk \in BOOLEAN :
         (body.parsed /\ TypeOrMessageInvalid(body) /\ SubmitInsert(r, body, insertOk))
         => /\ last'.op = "response"
            /\ last'.status = 400
            /\ last'.feedback = NoFeedback
            /\ feedbacks' = feedbacks
            /\ accepted' = accepted]_vars

\* a resolved request has just been refused for its type, and nothing was stored
C14_Witness ==
    /\ IsResponse(400)
    /\ last.error = "Invalid type. Must be one of: bug, suggestion, praise, other"
    /\ last.lookup
    /\ feedbacks = <<>>
    /\ \E r \in Slots : ~pending[r].busy

\* C15: a key that is inactive stays in the table and stays inactive after every step,
\* and its token resolves to nothing after the step; no two keys share a token, so a
\* token resolves to at most one row.
C15_InactiveKeyStaysInactive ==
    [][ /\ \A i \in DOMAIN api_keys :
            ~api_keys[i].is_active
            => /\ i \in DOMAIN api_keys'
               /\ api_keys'[i].id = api_keys[i].id
               /\ api_keys'[i].key = api_keys[i].key
               /\ ~api_keys'[i].is_active
               /\ get_user_id_from_api_key(<<api_keys[i].key>>)' = <<>>
        /\ \A i, j \in DOMAIN api_keys' :
            api_keys'[i].key = api_keys'[j].key => i = j
        /\ \A i \in 1..Len(api_keys') :
            Len(get_user_id_from_api_key(<<gen_random_key(i)>>)') <= 1 ]_vars

\* a session has just run the deactivating update on a key that was already inactive
C15_Witness ==
    /\ last.op = "deactivate"
    /\ \E s \in Sessions :
        /\ regenerating[s]
        /\ started[s].updated
        /\ apiKey[s] \notin started[s].before
        /\ ~api_keys[apiKey[s]].is_active
        /\ get_user_id_from_api_key(<<api_keys[apiKey[s]].key>>) = <<>>

\* the rows of a sequence
Rows(seq) == {seq[i] : i \in DOMAIN seq}

\* what each session reads is its own tenant's: the dashboard rows are exactly the rows
\* of the tenant, all of them submitted with the tenant's keys; the active keys read and
\* the key held by the Settings page are the tenant's
C16_ReadsConfined ==
    \A s \in Sessions :
        /\ Rows(fetchData(s)) = {f \in Rows(feedbacks) : f.user_id = user[s]}
        /\ Len(fetchData(s)) = Cardinality(Rows(fetchData(s)))
        /\ \A f \in Rows(fetchData(s)) :
                \A ak \in Rows(api_keys) : ak.id = f.api_key_id => ak.user_id = user[s]
        /\ \A ak \in Rows(SelectActiveKeys(s)) : ak.user_id = user[s]
        /\ apiKey[s] # 0 => \A ak \in Rows(api_keys) : ak.id = apiKey[s] => ak.user_id = user[s]

\* neither step of a session's regenerateKey changes a key of another tenant, and the
\* key it inserts is the session's tenant's
C16_WritesConfined ==
    \A s \in Sessions :
        /\ regenerateKeyDeactivate(s, TRUE)
           => /\ Len(api_keys') = Len(api_keys)
              /\ \A i \in DOMAIN api_keys :
                    api_keys[i].user_id # user[s] => api_keys'[i] = api_keys[i]
        /\ regenerateKeyInsert(s, TRUE)
           => /\ Len(api_keys') = Len(api_keys) + 1
              /\ SubSeq(api_keys', 1, Len(api_keys)) = api_keys
              /\ api_keys'[Len(api_keys')].user_id = user[s]

\* C16: in every state the dashboard read of a tenant returns exactly the tenant's rows
\* and the active-key read only the tenant's keys, and no regenerateKey of a tenant
\* deactivates a key of another tenant or inserts a key owned by another tenant.
C16_TenantConfinement == []C16_ReadsConfined /\ [][C16_WritesConfined]_vars

\* both tenants have rows, T2 has just regenerated its key, and each dashboard shows
\* some but not all of the stored rows
C16_Witness ==
    /\ last.op = "regenerateKey"
    /\ last.session = "s3"
    /\ Len(fetchData("s1")) >= 1
    /\ Len(fetchData("s3")) >= 1
    /\ Len(fetchData("s1")) < Len(feedbacks)
    /\ \E ak \in Rows(api_keys) : ak.user_id = "T2" /\ ~ak.is_active

\* C17: a request whose method is not POST is answered without a key lookup, without a
\* suspended request and without a row, whatever its Authorization header: OPTIONS with
\* an empty 2xx response carrying the permissive CORS header, any other method with 405.
C17_NonPostNeverResolves ==
    [][\A r \in Slots, method \in Methods \ {"POST"}, authHeader \in Headers, rpcOk \in BOOLEAN :
         SubmitResolve(r, method, authHeader, rpcOk)
         => /\ last'.op = "response"
            /\ ~last'.lookup
            /\ pending' = pending
            /\ feedbacks' = feedbacks
            /\ accepted' = accepted
            /\ method = "OPTIONS"
               => /\ last'.status \in 200..299
                  /\ last'.error = ""
                  /\ last'.feedback = NoFeedback
                  /\ last'.cors = "*"
            /\ method # "OPTIONS" => last'.status = 405]_vars

\* an OPTIONS request has just been answered while no row is stored
C17_Witness ==
    /\ IsResponse(200)
    /\ ~last.lookup
    /\ last.error = ""
    /\ last.cors = "*"
    /\ feedbacks = <<>>

\* C18: with a resolved key and a parsed payload, a missing (or empty) type or message is
\* reported whatever else is wrong; otherwise an invalid type is reported whatever the
\* message length; otherwise a message that is too long is reported. A POST whose header
\* is malformed or whose token is not an active key's is answered 401 and its body is
\* never read.
C18_ValidationOrder ==
    [][ /\ \A r \in Slots, body \in RepeatBodies, insertOk \in BOOLEAN :
            (pending[r].busy /\ body.parsed /\ SubmitInsert(r, body, insertOk))
            => LET m == body.message
                   missing == \/ body.type \in {Undefined, ""}
                              \/ ~m.defined
                              \/ m.lead + m.core + m.trail = 0
                   badType == body.type \notin {"bug", "suggestion", "praise", "other"}
                   tooLong == m.lead + m.core + m.trail > 5000
               IN  /\ missing
                      => /\ last'.status = 400
                         /\ last'.error = "Missing required fields: type and message are required"
                   /\ (~missing /\ badType)
                      => /\ last'.status = 400
                         /\ last'.error = "Invalid type. Must be one of: bug, suggestion, praise, other"
                   /\ (~missing /\ ~badType /\ tooLong)
                      => /\ last'.status = 400
                         /\ last'.error = "Message too long. Maximum 5000 characters."
        /\ \A r \in Slots, authHeader \in RepeatHeaders, rpcOk \in BOOLEAN :
            ( /\ ~pending[r].busy
              /\ MalformedHeader(authHeader) \/ ~ActiveToken(Tail(authHeader))
              /\ SubmitResolve(r, "POST", authHeader, rpcOk) )
            => (last'.status = 401 /\ pending' = pending) ]_vars

\* a resolved request has just been refused for a missing field, and nothing was stored
C18_Witness ==
    /\ IsResponse(400)
    /\ last.error = "Missing required fields: type and message are required"
    /\ last.lookup
    /\ feedbacks = <<>>
    /\ accepted = 0

\* C19: when a tenant has no active key and none of its sessions is inside
\* regenerateKey, regenerateKey can run in each of its sessions whose page has loaded;
\* and a regenerateKey that began with no active key, ran alone and inserted its key
\* leaves the tenant with exactly one active key.
C19_RegenerateWithoutActiveKey ==
    /\ \A s \in Sessions :
            (ActiveKeys(user[s]) = {} /\ Regenerating(user[s]) = {} /\ ~loading[s])
            => ENABLED regenerateKeyDeactivate(s, TRUE)
    /\ ( /\ last.op = "regenerateKey"
         /\ ~last.error
         /\ started[last.session].before = {}
         /\ ~started[last.session].overlap )
       => Cardinality(ActiveKeys(user[last.session])) = 1

\* C20: whenever a tenant has an active key, the active-key read of each of its sessions
\* returns an active key of the tenant, the one created last; it returns none only when
\* the tenant has no active key.
C20_CurrentActiveKey ==
    \A s \in Sessions :
        LET data == single(SelectActiveKeys(s))
        IN  /\ ActiveKeys(user[s]) # {}
               => /\ data \in ActiveKeys(user[s])
                  /\ \A id \in ActiveKeys(user[s]) : id <= data
            /\ ActiveKeys(user[s]) = {} => data = 0

\* C21 (resolution): while keys are regenerated, a request is suspended before its insert
\* only with a key that is active, with the presented token, in the state its lookup ran
\* in; a token whose key is inactive in that state suspends no request.
C21_ResolvedWhileActive ==
    \A r \in Slots, authHeader \in RotationHeaders :
        SubmitResolve(r, "POST", authHeader, TRUE)
        => IF ActiveToken(Tail(authHeader))
           THEN \E i \in DOMAIN api_keys :
                    /\ api_keys[i].is_active
                    /\ <<api_keys[i].key>> = Tail(authHeader)
                    /\ pending'[r] = [busy |-> TRUE, apiKey |-> Tail(authHeader),
                                      user_id |-> api_keys[i].user_id,
                                      api_key_id |-> api_keys[i].id]
           ELSE pending' = pending /\ feedbacks' = feedbacks

\* C21 (insert): the insert adds one row, of the key and tenant the request was resolved
\* with, whether that key is still active or not; the keys are not touched.
C21_InsertedAsResolved ==
    \A r \in Slots, body \in RotationBodies :
        SubmitInsert(r, body, TRUE)
        => /\ Len(feedbacks') = Len(feedbacks) + 1
           /\ feedbacks'[Len(feedbacks')].api_key_id = pending[r].api_key_id
           /\ feedbacks'[Len(feedbacks')].user_id = pending[r].user_id
           /\ api_keys' = api_keys

\* C21: with submits and regenerations of the same tenant interleaved in every way, each
\* row created belongs to the key that was active, with the presented token, when the
\* request's key lookup ran; the insert does not look at the key again, and a request
\* whose lookup ran after the key was deactivated creates no row.
C21_AttributedToResolvedKey == [][C21_ResolvedWhileActive /\ C21_InsertedAsResolved]_vars

\* a row has just been stored for a key that was deactivated after the request was resolved
C21_Witness ==
    /\ IsResponse(201)
    /\ Len(feedbacks) >= 1
    /\ \E i \in DOMAIN api_keys :
        /\ api_keys[i].id = feedbacks[Len(feedbacks)].api_key_id
        /\ api_keys[i].user_id = feedbacks[Len(feedbacks)].user_id
        /\ ~api_keys[i].is_active

====
